---------------------------- MODULE Spec2Model ----------------------------
(***************************************************************************)
(* SapWebb reduction chain: FlagSaturatedColumns -> CDSCustomStep ->       *)
(* ReferenceCorrectionCustomStep -> FlaggingCustomStep -> TimeAverageStep. *)
(* Arrays are functions over 0-based index tuples.  Floating point values  *)
(* are exact rationals <<n, d>> (d > 0, lowest terms); <<0, 0>> is a       *)
(* non-finite float (NaN or inf).  A numpy masked-array element is a       *)
(* record [v |-> stored value, m |-> masked].                              *)
(***************************************************************************)
EXTENDS Integers, Sequences, FiniteSets, TLC

VARIABLES pc, ramp, rawdq, loc, prev, cube, num_ave, error

vars == <<pc, ramp, rawdq, loc, prev, cube, num_ave, error>>

\* ------------------------------------------------------------------ bounds
NInts == 2
NGroups == 4
NRows == 2
NCols == 3
MidRows == 1
FlagInts == 25
MaxBin == 3

\* ------------------------------------------------------- program constants
DO_NOT_USE == 1
SATURATED == 2
JUMP_DET == 4
RefRows == 6
Sigma == 5
MaxIters == 5
DqBits == 8

\* ------------------------------------------------------------- arithmetic
Abs(x) == IF x < 0 THEN -x ELSE x

Min2(a, b) == IF a < b THEN a ELSE b

Max2(a, b) == IF a > b THEN a ELSE b

RECURSIVE GCD(_, _)
GCD(a, b) == IF b = 0 THEN a ELSE GCD(b, a % b)

NaN == <<0, 0>>

IsFinite(x) == x[2] # 0

Rat(n, d) ==
    IF d = 0 THEN NaN
    ELSE LET s == IF d < 0 THEN -1 ELSE 1
             g == GCD(Abs(n), Abs(d))
         IN  <<(s * n) \div g, (s * d) \div g>>

FromInt(n) == <<n, 1>>

RAdd(a, b) ==
    IF a[2] = 0 \/ b[2] = 0 THEN NaN
    ELSE Rat(a[1] * b[2] + b[1] * a[2], a[2] * b[2])

RSub(a, b) ==
    IF a[2] = 0 \/ b[2] = 0 THEN NaN
    ELSE Rat(a[1] * b[2] - b[1] * a[2], a[2] * b[2])

RMul(a, b) ==
    IF a[2] = 0 \/ b[2] = 0 THEN NaN ELSE Rat(a[1] * b[1], a[2] * b[2])

\* IEEE division: x/0 and anything with a NaN is non-finite.
RDiv(a, b) ==
    IF a[2] = 0 \/ b[2] = 0 \/ b[1] = 0 THEN NaN
    ELSE Rat(a[1] * b[2], a[2] * b[1])

\* Comparisons with a non-finite operand are False, as for NaN.
RLess(a, b) == a[2] # 0 /\ b[2] # 0 /\ a[1] * b[2] < b[1] * a[2]

RLeq(a, b) == a[2] # 0 /\ b[2] # 0 /\ a[1] * b[2] <= b[1] * a[2]

REq(a, b) == a[2] # 0 /\ b[2] # 0 /\ a = b

Zero == <<0, 1>>

\* ---------------------------------------------------------- bitwise flags
RECURSIVE BitOrN(_, _, _)
BitOrN(a, b, n) ==
    IF n = 0 THEN 0
    ELSE (IF a % 2 = 1 \/ b % 2 = 1 THEN 1 ELSE 0)
         + 2 * BitOrN(a \div 2, b \div 2, n - 1)

RECURSIVE BitAndN(_, _, _)
BitAndN(a, b, n) ==
    IF n = 0 THEN 0
    ELSE (IF a % 2 = 1 /\ b % 2 = 1 THEN 1 ELSE 0)
         + 2 * BitAndN(a \div 2, b \div 2, n - 1)

BitOr(a, b) == BitOrN(a, b, DqBits)

BitAnd(a, b) == BitAndN(a, b, DqBits)

HasBits(x, bits) == BitAnd(x, bits) = bits

\* np.diff on the uint8 group mask: the difference wraps modulo 2^8.
DiffU8(hi, lo) == (hi - lo) % 256

\* ------------------------------------------------------------ index sets
Idx3(shape) ==
    (0 .. shape[1] - 1) \X (0 .. shape[2] - 1) \X (0 .. shape[3] - 1)

Idx4(shape) ==
    (0 .. shape[1] - 1) \X (0 .. shape[2] - 1) \X (0 .. shape[3] - 1)
        \X (0 .. shape[4] - 1)

\* Python slice a[start:stop] over an axis of length n.
PySlice(start, stop, n) ==
    LET s == IF start < 0 THEN Max2(start + n, 0) ELSE Min2(start, n)
        e == IF stop < 0 THEN Max2(stop + n, 0) ELSE Min2(stop, n)
    IN  {x \in 0 .. n - 1 : s <= x /\ x < e}

\* ----------------------------------------------- FlagSaturatedColumns
flag_sat == BitOr(SATURATED, DO_NOT_USE)

\* idx = np.where(groupdq & SATURATED)
SatIdx(gdq) == {p \in DOMAIN gdq : BitAnd(gdq[p], SATURATED) # 0}

FlagColumns(k, ncols, n3) == PySlice(k - ncols, k + ncols + 1, n3)

FlagSaturatedColumns(rmp, ncols) ==
    LET idx == SatIdx(rmp.groupdq)
        hit(p) == \E q \in idx :
                     /\ q[1] = p[1]
                     /\ q[2] = p[2]
                     /\ p[4] \in FlagColumns(q[4], ncols, rmp.shape[4])
    IN  [rmp EXCEPT !.groupdq =
            [p \in DOMAIN rmp.groupdq |->
                IF hit(p) THEN BitOr(rmp.groupdq[p], flag_sat)
                ELSE rmp.groupdq[p]]]

\* ------------------------------------------------------------ CDSCustomStep
\* gain_2d and readnoise_2d*gain_2d from the reference files.
GetGainRon2d(rmp) ==
    [gain |-> [x \in (0 .. rmp.shape[3] - 1) \X (0 .. rmp.shape[4] - 1) |-> <<2, 1>>],
     ron  |-> [x \in (0 .. rmp.shape[3] - 1) \X (0 .. rmp.shape[4] - 1) |-> <<2, 1>>]]

\* p[i, j, k] = sat[i, j+1, mid, k] - sat[i, j, mid, k]
SatDiff(rmp, i, j, k) ==
    LET mid == rmp.shape[3] \div 2
    IN  DiffU8(BitAnd(rmp.groupdq[<<i, j + 1, mid, k>>], SATURATED),
               BitAnd(rmp.groupdq[<<i, j, mid, k>>], SATURATED))

DefaultCDS(rmp, i, r, k) ==
    LET n1 == rmp.shape[2]
    IN  RDiv(FromInt(rmp.data[<<i, n1 - 1, r, k>>] - rmp.data[<<i, 0, r, k>>]),
             FromInt(n1 - 1))

DefaultMask(rmp, i, r, k) ==
    LET n1 == rmp.shape[2]
    IN  BitOr(BitOr(rmp.groupdq[<<i, n1 - 1, r, k>>], rmp.groupdq[<<i, 0, r, k>>]),
              rmp.pixeldq[<<r, k>>])

\* Variant: the difference is taken up to the group of the transition itself.
TruncatedCDS_NextGroup(rmp, i, j, r, k) ==
    RDiv(FromInt(rmp.data[<<i, j + 1, r, k>>] - rmp.data[<<i, 0, r, k>>]),
         FromInt(j + 1))

TruncatedCDS(rmp, i, j, r, k) ==
    LET norm == IF j = 0 THEN 1 ELSE j
    IN  RDiv(FromInt(rmp.data[<<i, j, r, k>>] - rmp.data[<<i, 0, r, k>>]),
             FromInt(norm))

TruncatedMask(rmp, i, j, r, k) ==
    LET do_not_use == IF j = 0 THEN DO_NOT_USE ELSE 0
    IN  BitOr(BitOr(BitOr(rmp.groupdq[<<i, j, r, k>>], rmp.groupdq[<<i, 0, r, k>>]),
                    rmp.pixeldq[<<r, k>>]),
              do_not_use)

TruncatedNgroup(j) == IF j = 0 THEN NaN ELSE FromInt(j)

\* One pass of "for i, j, k in zip(*idx)": whole column k of integration i.
CDSLoopBody(rmp, st, i, j, k) ==
    [cds    |-> [x \in DOMAIN st.cds |->
                   IF x[1] = i /\ x[3] = k
                   THEN TruncatedCDS(rmp, i, j, x[2], k) ELSE st.cds[x]],
     mask   |-> [x \in DOMAIN st.mask |->
                   IF x[1] = i /\ x[3] = k
                   THEN TruncatedMask(rmp, i, j, x[2], k) ELSE st.mask[x]],
     ngroup |-> [x \in DOMAIN st.ngroup |->
                   IF x[1] = i /\ x[3] = k
                   THEN TruncatedNgroup(j) ELSE st.ngroup[x]]]

\* np.where returns idx in C order: t enumerates (i, j, k) lexicographically.
RECURSIVE CDSLoop(_, _, _)
CDSLoop(rmp, t, st) ==
    LET n3 == rmp.shape[4]
        nj == rmp.shape[2] - 1
        i  == t \div (nj * n3)
        j  == (t \div n3) % nj
        k  == t % n3
    IN  IF t >= rmp.shape[1] * nj * n3 THEN st
        ELSE IF SatDiff(rmp, i, j, k) = SATURATED
             THEN CDSLoop(rmp, t + 1, CDSLoopBody(rmp, st, i, j, k))
             ELSE CDSLoop(rmp, t + 1, st)

CubeShape(rmp) == <<rmp.shape[1], rmp.shape[3], rmp.shape[4]>>

CDSLocals(rmp) ==
    LET P == Idx3(CubeShape(rmp))
    IN  CDSLoop(rmp, 0,
            [cds    |-> [x \in P |-> DefaultCDS(rmp, x[1], x[2], x[3])],
             mask   |-> [x \in P |-> DefaultMask(rmp, x[1], x[2], x[3])],
             ngroup |-> [x \in P |-> FromInt(rmp.shape[2] - 1)]])

\* ----------------------------------------------------- numpy.ma elements
MA(v, m) == [v |-> v, m |-> m]

\* a / b with b unmasked: masked where a is masked or the quotient is not
\* finite; a masked result keeps a's stored value.
MADivPlain(a, b) ==
    LET q == RDiv(a.v, b)
        m == a.m \/ ~IsFinite(q)
    IN  MA(IF m THEN a.v ELSE q, m)

MAAdd(a, b) ==
    LET m == a.m \/ b.m
    IN  MA(IF m THEN a.v ELSE RAdd(a.v, b.v), m)

MASub(a, b) ==
    LET m == a.m \/ b.m
    IN  MA(IF m THEN a.v ELSE RSub(a.v, b.v), m)

\* a *= s in place: masked elements are multiplied by 1.
MAIMulPlain(a, s) == MA(IF a.m THEN a.v ELSE RMul(a.v, s), a.m)

\* np.ma.sqrt: root = TRUE stands for sqrt(v); a masked or negative element
\* is masked and keeps the argument's stored value.
MASqrt(a) ==
    LET m == a.m \/ ~IsFinite(a.v) \/ RLess(a.v, Zero)
    IN  [v |-> a.v, m |-> m, root |-> ~m]

\* The square of an err element.
ErrSquared(e) == IF e.root THEN e.v ELSE RMul(e.v, e.v)

RECURSIVE SumFn(_, _)
SumFn(f, S) ==
    IF S = {} THEN Zero
    ELSE LET x == CHOOSE y \in S : TRUE
         IN  RAdd(f[x], SumFn(f, S \ {x}))

\* k-th smallest (0-based) of the finite values f[t], t in S.
Kth(f, S, k) ==
    LET vals == {f[t] : t \in S}
    IN  CHOOSE x \in vals :
            /\ Cardinality({t \in S : RLess(f[t], x)}) <= k
            /\ Cardinality({t \in S : RLeq(f[t], x)}) > k

Median(f, S) ==
    LET n == Cardinality(S)
    IN  IF n = 0 THEN NaN
        ELSE IF n % 2 = 1 THEN Kth(f, S, (n - 1) \div 2)
        ELSE RDiv(RAdd(Kth(f, S, n \div 2 - 1), Kth(f, S, n \div 2)), FromInt(2))

Mean(f, S) == RDiv(SumFn(f, S), FromInt(Cardinality(S)))

\* Population variance (ddof = 0), the square of np.std.
Variance(f, S) ==
    LET mu == Mean(f, S)
        sq == [t \in S |-> RMul(RSub(f[t], mu), RSub(f[t], mu))]
    IN  Mean(sq, S)

\* ------------------------------------------------- CDSCustomStep.process
NoBackground == [x \in {} |-> MA(Zero, FALSE)]

CDSProcess(rmp) ==
    LET st    == CDSLocals(rmp)
        cal   == GetGainRon2d(rmp)
        P     == Idx3(CubeShape(rmp))
        bad   == [x \in P |-> st.mask[x] > 0]
        cds   == [x \in P |-> MA(RMul(cal.gain[<<x[2], x[3]>>], st.cds[x]), bad[x])]
        varP  == [x \in P |-> MADivPlain(cds[x], st.ngroup[x])]
        varR  == [x \in P |->
                    MA(RDiv(RMul(FromInt(2),
                                 RMul(cal.ron[<<x[2], x[3]>>], cal.ron[<<x[2], x[3]>>])),
                            RMul(st.ngroup[x], st.ngroup[x])),
                       bad[x])]
    IN  [shape       |-> CubeShape(rmp),
         data        |-> cds,
         dq          |-> st.mask,
         var_poisson |-> varP,
         var_rnoise  |-> varR,
         err         |-> [x \in P |-> MASqrt(MAAdd(varP[x], varR[x]))],
         ngroup      |-> st.ngroup,
         background  |-> NoBackground]

\* --------------------------------- ReferenceCorrectionCustomStep.process
\* Rows of data[:, 0:6, :] followed by rows of data[:, -6:, :].
RefRowSeq(n1) ==
    LET c == Cardinality(PySlice(0, RefRows, n1))
        lo == n1 - Cardinality(PySlice(-RefRows, n1, n1))
    IN  [t \in 1 .. 2 * c |-> IF t <= c THEN t - 1 ELSE lo + (t - c - 1)]

\* np.ma.median over the unmasked reference samples of (integration, column).
MedianBackground(c, i, k) ==
    LET rows  == RefRowSeq(c.shape[2])
        valid == {t \in DOMAIN rows : ~c.data[<<i, rows[t], k>>].m}
        f     == [t \in valid |-> c.data[<<i, rows[t], k>>].v]
    IN  MA(Median(f, valid), valid = {})

RefSampleCount(c) == Len(RefRowSeq(c.shape[2]))

RNoiseFactor(c) == RAdd(FromInt(1), RDiv(FromInt(1), FromInt(RefSampleCount(c))))

\* Variant: the first integration's background is used for every integration.
RefCorrData_FirstInt(c, mb, x) == MASub(c.data[x], mb[<<0, x[3]>>])

RefCorrData(c, mb, x) == MASub(c.data[x], mb[<<x[1], x[3]>>])

RefCorrProcess(c) ==
    LET mb == [y \in (0 .. c.shape[1] - 1) \X (0 .. c.shape[3] - 1) |->
                  MedianBackground(c, y[1], y[2])]
    IN  [c EXCEPT
            !.data = [x \in DOMAIN c.data |-> RefCorrData(c, mb, x)],
            !.var_rnoise = [x \in DOMAIN c.var_rnoise |->
                               MAIMulPlain(c.var_rnoise[x], RNoiseFactor(c))],
            !.background = mb]

\* -------------------------------------------- FlaggingCustomStep.process
\* x lies outside [center - Sigma*std, center + Sigma*std], compared on squares.
OutsideBounds(x, center, var) ==
    LET d == RSub(x, center)
    IN  RLess(RMul(FromInt(Sigma * Sigma), var), RMul(d, d))

\* astropy sigma_clip along axis 0 for one pixel: S is the set of integrations
\* still kept; each iteration clips against the median and the standard
\* deviation of the kept samples, until nothing changes or maxiters is reached.
RECURSIVE ClipIter(_, _, _)
ClipIter(f, S, iter) ==
    IF iter >= MaxIters \/ S = {} THEN S
    ELSE LET center == Median(f, S)
             var    == Variance(f, S)
             keep   == {t \in S : ~OutsideBounds(f[t], center, var)}
         IN  IF keep = S THEN S ELSE ClipIter(f, keep, iter + 1)

\* The mask of sigma_clip(data, sigma=5, axis=0) at pixel (r, k): masked or
\* non-finite input samples stay masked, clipped samples are added.
SigmaClipMask(c, r, k) ==
    LET T     == 0 .. c.shape[1] - 1
        valid == {t \in T : ~c.data[<<t, r, k>>].m /\ IsFinite(c.data[<<t, r, k>>].v)}
        f     == [t \in valid |-> c.data[<<t, r, k>>].v]
        kept  == ClipIter(f, valid, 0)
    IN  [t \in T |-> t \notin kept]

\* Variant: the union of the two masks instead of their difference.
NewOutlier_Or(dq, clipped) == dq > 0 \/ clipped

\* new_outliers = (dq > 0) ^ _cds_.mask
NewOutlier(dq, clipped) == (dq > 0) # clipped

FlagOutlier(dq, outlier) ==
    IF outlier THEN BitOr(dq, BitOr(JUMP_DET, DO_NOT_USE)) ELSE dq

ClipMasks(c) ==
    [y \in (0 .. c.shape[2] - 1) \X (0 .. c.shape[3] - 1) |->
        SigmaClipMask(c, y[1], y[2])]

FlaggingProcess(c) ==
    LET cm == ClipMasks(c)
        clipped(x) == cm[<<x[2], x[3]>>][x[1]]
    IN  [c EXCEPT
            !.dq = [x \in DOMAIN c.dq |->
                       FlagOutlier(c.dq[x], NewOutlier(c.dq[x], clipped(x)))],
            !.data = [x \in DOMAIN c.data |->
                         IF clipped(x) THEN MA(NaN, TRUE) ELSE c.data[x]]]

\* ------------------------------------------------- TimeAverageStep.process
\* Python's a % b for b # 0: the result takes the sign of b.
PyMod(a, b) == IF b > 0 THEN a % b ELSE -((-a) % (-b))

\* Variant: the size of the bin is taken in absolute value.
ReshapeBins_Abs(len, B, n1, n2) ==
    IF B = 0 THEN -1 ELSE (len * n1 * n2) \div (Abs(B) * n1 * n2)

\* reshape(-1, num_ave, n1, n2) of an array of shape (len, n1, n2): the length of
\* the leading axis, or -1 for numpy's ValueError (every negative entry is an
\* unknown dimension, and only one is allowed).
ReshapeBins(len, B, n1, n2) ==
    IF B < 0 THEN -1
    ELSE IF B * n1 * n2 = 0 THEN -1
    ELSE IF (len * n1 * n2) % (B * n1 * n2) # 0 THEN -1
    ELSE (len * n1 * n2) \div (B * n1 * n2)

BinSamples(b, B) == b * B .. b * B + B - 1

\* Variant: a plain mean over every sample, masked or not.
MAMean_Plain(e, T) == MA(Mean([t \in T |-> e[t].v], T), FALSE)

\* Masked mean of the elements e[t], t in T; masked when none is valid.
MAMean(e, T) ==
    LET valid == {t \in T : ~e[t].m}
        f     == [t \in valid |-> e[t].v]
    IN  IF valid = {} THEN MA(Zero, TRUE) ELSE MA(Mean(f, valid), FALSE)

\* np.ma.array(data = a, mask = dq > 0): the array's own mask is kept.
Remask(a, dq) == MA(a.v, a.m \/ dq > 0)

\* dq = np.ma.getmask(data).astype(np.uint32)
BinnedDq(mean) == IF mean.m THEN 1 ELSE 0

Filled(a) == MA(IF a.m THEN Zero ELSE a.v, FALSE)

BinnedErr(varp, varr) ==
    LET s == MAAdd(varp, varr)
        m == s.m \/ ~IsFinite(s.v) \/ RLess(s.v, Zero)
    IN  IF m THEN [v |-> Zero, m |-> FALSE, root |-> FALSE]
        ELSE [v |-> s.v, m |-> FALSE, root |-> TRUE]

TimeAverageCube(c, B, nb) ==
    LET n1 == c.shape[2]
        n2 == c.shape[3]
        P  == Idx3(<<nb, n1, n2>>)
        col(a, x)  == [t \in BinSamples(x[1], B) |->
                          Remask(a[<<t, x[2], x[3]>>], c.dq[<<t, x[2], x[3]>>])]
        count      == [x \in P |->
                          Cardinality({t \in BinSamples(x[1], B) :
                                          ~col(c.data, x)[t].m})]
        data       == [x \in P |-> MAMean(col(c.data, x), BinSamples(x[1], B))]
        varp       == [x \in P |->
                          MADivPlain(MAMean(col(c.var_poisson, x), BinSamples(x[1], B)),
                                     FromInt(count[x]))]
        varr       == [x \in P |->
                          MADivPlain(MAMean(col(c.var_rnoise, x), BinSamples(x[1], B)),
                                     FromInt(count[x]))]
    IN  [shape       |-> <<nb, n1, n2>>,
         data        |-> [x \in P |-> Filled(data[x])],
         dq          |-> [x \in P |-> BinnedDq(data[x])],
         var_poisson |-> [x \in P |-> Filled(varp[x])],
         var_rnoise  |-> [x \in P |-> Filled(varr[x])],
         err         |-> [x \in P |-> BinnedErr(varp[x], varr[x])],
         ngroup      |-> [x \in P |->
                            SumFn([t \in BinSamples(x[1], B) |-> c.ngroup[<<t, x[2], x[3]>>]],
                                  BinSamples(x[1], B))],
         background  |-> IF DOMAIN c.background = {} THEN NoBackground
                         ELSE [y \in (0 .. nb - 1) \X (0 .. n2 - 1) |->
                                 MAMean([t \in BinSamples(y[1], B) |-> c.background[<<t, y[2]>>]],
                                        BinSamples(y[1], B))]]

NoCube ==
    [shape |-> <<0, 0, 0>>, data |-> NoBackground, dq |-> NoBackground,
     var_poisson |-> NoBackground, var_rnoise |-> NoBackground,
     err |-> NoBackground, ngroup |-> NoBackground, background |-> NoBackground]

\* The outcome of process(): the exception raised ("none" when it returns)
\* and the returned model.
TimeAverageProcess(c, B) ==
    IF B = 0 THEN [error |-> "ZeroDivisionError", out |-> NoCube]
    ELSE LET n0     == c.shape[1]
             new_n0 == n0 - PyMod(n0, B)
             len    == Cardinality(PySlice(0, new_n0, n0))
             nb     == ReshapeBins(len, B, c.shape[2], c.shape[3])
         IN  IF nb < 0 THEN [error |-> "ValueError", out |-> NoCube]
             ELSE [error |-> "none", out |-> TimeAverageCube(c, B, nb)]

\* ------------------------------------------------------------ the pipeline
NoRamp ==
    [shape |-> <<0, 0, 0, 0>>, data |-> NoBackground, groupdq |-> NoBackground,
     pixeldq |-> NoBackground]

NoLocals == [cds |-> NoBackground, mask |-> NoBackground, ngroup |-> NoBackground]

RampShape == <<NInts, NGroups, NRows, NCols>>

\* Raw saturation flags as the upstream saturation step can leave them: none,
\* one pixel in one group, one pixel from a group onward, or one pixel in two
\* groups of the same ramp that are not adjacent.
SatSets ==
    LET Pix == Idx4(RampShape)
    IN  {{}} \cup {{p} : p \in Pix}
             \cup {{q \in Pix : q[1] = p[1] /\ q[3] = p[3] /\ q[4] = p[4] /\ q[2] >= p[2]}
                      : p \in Pix}
             \cup {{p, <<p[1], g, p[3], p[4]>>} :
                      <<p, g>> \in {y \in Pix \X (0 .. NGroups - 1) : y[2] >= y[1][2] + 2}}

\* Other flags of the input: none, or a bad pixel in pixeldq together with a
\* JUMP_DET in the last group of one pixel.
DqOptions == {"none", "flags"}

\* Counts that rise (sgn = 1) or fall (sgn = -1) non-linearly along the ramp of
\* integration 0, scaled per column, with a per-row and per-integration pedestal.
RampData(sgn) ==
    [p \in Idx4(RampShape) |->
        (IF p[1] = 0 THEN sgn ELSE 1) * ((p[2] * (p[2] + 1)) \div 2) * (p[4] + 1)
            + p[3] + p[1]]

MakeRamp(S, sgn, opt) ==
    [shape   |-> RampShape,
     data    |-> RampData(sgn),
     groupdq |-> [p \in Idx4(RampShape) |->
                    BitOr(IF p \in S THEN SATURATED ELSE 0,
                          IF opt = "flags" /\ p = <<0, NGroups - 1, 0, NCols - 1>>
                          THEN JUMP_DET ELSE 0)],
     pixeldq |-> [x \in (0 .. NRows - 1) \X (0 .. NCols - 1) |->
                    IF opt = "flags" /\ x = <<0, 0>> THEN DO_NOT_USE ELSE 0]]

Init ==
    \E S \in SatSets, sgn \in {1, -1}, opt \in DqOptions :
        /\ ramp = MakeRamp(S, sgn, opt)
        /\ rawdq = ramp.groupdq
        /\ pc = "raw"
        /\ loc = NoLocals
        /\ prev = NoCube
        /\ cube = NoCube
        /\ num_ave = 25
        /\ error = "none"

\* data = FlagSaturatedColumns(data, ncols=1)
FlagSaturatedColumnsStep ==
    /\ pc = "raw"
    /\ ramp' = FlagSaturatedColumns(ramp, 1)
    /\ pc' = "flagged"
    /\ UNCHANGED <<rawdq, loc, prev, cube, num_ave, error>>

CDSCustomStep ==
    /\ pc = "flagged"
    /\ loc' = CDSLocals(ramp)
    /\ cube' = CDSProcess(ramp)
    /\ pc' = "cds"
    /\ UNCHANGED <<ramp, rawdq, prev, num_ave, error>>

ReferenceCorrectionCustomStep ==
    /\ pc = "cds"
    /\ prev' = cube
    /\ cube' = RefCorrProcess(cube)
    /\ pc' = "refcorr"
    /\ UNCHANGED <<ramp, rawdq, loc, num_ave, error>>

FlaggingCustomStep ==
    /\ pc = "refcorr"
    /\ prev' = cube
    /\ cube' = FlaggingProcess(cube)
    /\ pc' = "flagging"
    /\ UNCHANGED <<ramp, rawdq, loc, num_ave, error>>

BinSizes == (-MaxBin) .. MaxBin

TimeAverageStep ==
    /\ pc = "flagging"
    /\ \E B \in BinSizes :
          LET res == TimeAverageProcess(cube, B)
          IN  /\ num_ave' = B
              /\ error' = res.error
              /\ cube' = res.out
              /\ pc' = IF res.error = "none" THEN "timeaverage" ELSE "failed"
    /\ prev' = cube
    /\ UNCHANGED <<ramp, rawdq, loc>>

Next ==
    \/ FlagSaturatedColumnsStep
    \/ CDSCustomStep
    \/ ReferenceCorrectionCustomStep
    \/ FlaggingCustomStep
    \/ TimeAverageStep

Spec == Init /\ [][Next]_vars

\* ------------------------------- ReferenceCorrectionCustomStep on its own
\* A rate cube tall enough to hold rows outside the two reference bands.  The
\* reference rows of (integration, column) hold one offset; the other rows
\* hold a signal.  Flagged pixels are masked in every array, as CDSCustomStep
\* leaves them.
RefShape == <<NInts, 2 * RefRows + MidRows, NCols>>

IsRefRow(r, n1) == r \in PySlice(0, RefRows, n1) \cup PySlice(-RefRows, n1, n1)

RefOffset(base, i, k) == base + 1 + i * NCols + k

RefMaskSets ==
    LET P == Idx3(RefShape)
    IN  {{}} \cup {{x} : x \in P}
             \cup {{x \in P : x[1] = y[1] /\ x[3] = y[3] /\ IsRefRow(x[2], RefShape[2])}
                      : y \in P}
             \cup {{x \in P : x[1] = y[1] /\ x[3] = y[3]} : y \in P}

MakeRefCube(base, sig, M) ==
    LET P == Idx3(RefShape)
    IN  [shape       |-> RefShape,
         data        |-> [x \in P |->
                            MA(FromInt(IF IsRefRow(x[2], RefShape[2])
                                       THEN RefOffset(base, x[1], x[3])
                                       ELSE sig + 10 * x[2] + x[3] + x[1]),
                               x \in M)],
         dq          |-> [x \in P |-> IF x \in M THEN DO_NOT_USE ELSE 0],
         var_poisson |-> [x \in P |-> MA(FromInt(1), x \in M)],
         var_rnoise  |-> [x \in P |-> MA(FromInt(3), x \in M)],
         err         |-> [x \in P |-> [v |-> FromInt(4), m |-> x \in M, root |-> TRUE]],
         ngroup      |-> [x \in P |-> FromInt(NGroups - 1)],
         background  |-> NoBackground]

InitRef ==
    \E base \in {0, 5}, sig \in {0, 3}, M \in RefMaskSets :
        /\ cube = MakeRefCube(base, sig, M)
        /\ pc = "cds"
        /\ ramp = NoRamp
        /\ rawdq = NoBackground
        /\ loc = NoLocals
        /\ prev = NoCube
        /\ num_ave = 25
        /\ error = "none"

SpecRef == InitRef /\ [][ReferenceCorrectionCustomStep]_vars

\* ------------------------------------------ FlaggingCustomStep on its own
\* A time line long enough for one sample to lie beyond Sigma standard
\* deviations: column 0 is flat with at most one spike and at most one sample
\* flagged beforehand, column 1 carries a slowly varying signal.  The data
\* array carries the flags as its mask (a cube handed on in memory) or no
\* mask (a cube read back from a file).
FlagShape == <<FlagInts, 1, 2>>

FlagChoices == {DO_NOT_USE, BitOr(SATURATED, DO_NOT_USE), BitOr(JUMP_DET, DO_NOT_USE)}

MakeFlagCube(spike, flagged, flag, masked) ==
    LET P  == Idx3(FlagShape)
        dq == [x \in P |-> IF x[3] = 0 /\ x[1] = flagged THEN flag ELSE 0]
    IN  [shape       |-> FlagShape,
         data        |-> [x \in P |->
                            MA(FromInt(IF x[3] = 1 THEN x[1] % 3
                                       ELSE IF x[1] = spike THEN 1 ELSE 0),
                               masked /\ dq[x] > 0)],
         dq          |-> dq,
         var_poisson |-> [x \in P |-> MA(FromInt(1), masked /\ dq[x] > 0)],
         var_rnoise  |-> [x \in P |-> MA(FromInt(3), masked /\ dq[x] > 0)],
         err         |-> [x \in P |->
                            [v |-> FromInt(4), m |-> masked /\ dq[x] > 0, root |-> TRUE]],
         ngroup      |-> [x \in P |-> FromInt(NGroups - 1)],
         background  |-> NoBackground]

InitFlag ==
    \E spike \in {-1, 0, FlagInts \div 2, FlagInts - 1},
       flagged \in -1 .. FlagInts - 1, flag \in FlagChoices, masked \in BOOLEAN :
        /\ cube = MakeFlagCube(spike, flagged, flag, masked)
        /\ pc = "refcorr"
        /\ ramp = NoRamp
        /\ rawdq = NoBackground
        /\ loc = NoLocals
        /\ prev = NoCube
        /\ num_ave = 25
        /\ error = "none"

SpecFlag == InitFlag /\ [][FlaggingCustomStep]_vars

\* ------------------------------------------------------------- properties
AfterCDS == pc \in {"cds", "refcorr", "flagging", "timeaverage", "failed"}

StageOutput == pc \in {"cds", "refcorr", "flagging", "timeaverage"}

MidRow == ramp.shape[3] \div 2

\* SATURATED on the mid-row used for transition detection.
MidSat(i, g, k) == BitAnd(ramp.groupdq[<<i, g, MidRow, k>>], SATURATED) # 0

Columns == (0 .. ramp.shape[1] - 1) \X (0 .. ramp.shape[4] - 1)

Groups == 0 .. ramp.shape[2] - 1

Rows == 0 .. ramp.shape[3] - 1

\* The first group in which the column is saturated, -1 when there is none.
FirstSat(i, k) ==
    IF \E g \in Groups : MidSat(i, g, k)
    THEN CHOOSE g \in Groups : MidSat(i, g, k) /\ \A h \in 0 .. g - 1 : ~MidSat(i, h, k)
    ELSE -1

\* The groups at which SATURATED turns on (off in the group before).
TurnsOn(i, k) == {g \in Groups \ {0} : MidSat(i, g, k) /\ ~MidSat(i, g - 1, k)}

LastTurnOn(i, k) ==
    IF TurnsOn(i, k) = {} THEN -1
    ELSE CHOOSE g \in TurnsOn(i, k) : \A h \in TurnsOn(i, k) : h <= g

RateBetween(i, g, r, k) ==
    RDiv(FromInt(ramp.data[<<i, g, r, k>>] - ramp.data[<<i, 0, r, k>>]), FromInt(g))

\* C1 as stated: where SATURATED first appears at group g, 1 <= g < num_groups-1,
\* every pixel of the column has ngroup = g and pre-gain rate = (data[g]-data[0])/g.
C1_AsStated ==
    AfterCDS =>
        \A c \in Columns :
            LET g == FirstSat(c[1], c[2])
            IN  (1 <= g /\ g < ramp.shape[2] - 1) =>
                    \A r \in Rows :
                        /\ loc.ngroup[<<c[1], r, c[2]>>] = FromInt(g)
                        /\ loc.cds[<<c[1], r, c[2]>>] = RateBetween(c[1], g, r, c[2])

\* C1 amended: where SATURATED turns on at group g and at no later group,
\* 2 <= g <= num_groups-1, every pixel of the column has ngroup = g-1 and
\* pre-gain rate = (data[g-1]-data[0])/(g-1).
C1_Truncation ==
    AfterCDS =>
        \A c \in Columns :
            LET g == LastTurnOn(c[1], c[2])
            IN  (2 <= g /\ g <= ramp.shape[2] - 1) =>
                    \A r \in Rows :
                        /\ loc.ngroup[<<c[1], r, c[2]>>] = FromInt(g - 1)
                        /\ loc.cds[<<c[1], r, c[2]>>] = RateBetween(c[1], g - 1, r, c[2])
                        /\ pc = "cds" =>
                              cube.data[<<c[1], r, c[2]>>].v =
                                  RMul(GetGainRon2d(ramp).gain[<<r, c[2]>>],
                                       RateBetween(c[1], g - 1, r, c[2]))

\* A column whose saturation first appears at a group g >= 2 and never again.
C1_Witness ==
    /\ pc = "cds"
    /\ \E c \in Columns :
          /\ FirstSat(c[1], c[2]) >= 2
          /\ FirstSat(c[1], c[2]) = LastTurnOn(c[1], c[2])
          /\ loc.ngroup[<<c[1], 0, c[2]>>] = FromInt(FirstSat(c[1], c[2]) - 1)

\* C2 as stated: a column saturated at the first group (g = 0) does not make the
\* stage fail, and every pixel of it has DO_NOT_USE in the mask and NaN in ngroup.
C2_AsStated ==
    AfterCDS =>
        /\ pc = "cds" => error = "none"
        /\ \A c \in Columns :
              MidSat(c[1], 0, c[2]) =>
                  \A r \in Rows :
                      /\ HasBits(loc.mask[<<c[1], r, c[2]>>], DO_NOT_USE)
                      /\ loc.ngroup[<<c[1], r, c[2]>>] = NaN

\* C3 as stated: with exactly one SATURATED pixel at (i, j, k), ncols = 1 sets
\* SATURATED | DO_NOT_USE on the columns k-1 .. k+1 that exist, in group j of
\* integration i, and changes nothing else.
C3_AsStated ==
    (pc = "flagged" /\ Cardinality(SatIdx(rawdq)) = 1) =>
        LET p == CHOOSE q \in SatIdx(rawdq) : TRUE
            cols == {k \in 0 .. ramp.shape[4] - 1 : p[4] - 1 <= k /\ k <= p[4] + 1}
        IN  \A q \in DOMAIN rawdq :
                ramp.groupdq[q] =
                    IF q[1] = p[1] /\ q[2] = p[2] /\ q[4] \in cols
                    THEN BitOr(rawdq[q], flag_sat) ELSE rawdq[q]

VarSum(c, x) == RAdd(c.var_poisson[x].v, c.var_rnoise[x].v)

\* C4 as stated: in every stage's output, err^2 = var_poisson + var_rnoise
\* at every pixel whose quality mask is zero.
C4_AsStated ==
    StageOutput =>
        \A x \in DOMAIN cube.dq :
            cube.dq[x] = 0 => REq(ErrSquared(cube.err[x]), VarSum(cube, x))

\* The flags of the input are all still set in the output.
KeepsBits(old, new) == BitAnd(new, old) = old

\* C5: the flagging stage clears no bit, adds JUMP_DET | DO_NOT_USE exactly
\* where (input mask nonzero) differs from (sample rejected by the clip), and
\* leaves the mask alone everywhere else.
C5_Monotone ==
    pc = "flagging" =>
        \A x \in DOMAIN cube.dq :
            LET rejected == cube.data[x].m
                xor == (prev.dq[x] > 0 /\ ~rejected) \/ (prev.dq[x] = 0 /\ rejected)
            IN  /\ KeepsBits(prev.dq[x], cube.dq[x])
                /\ xor => cube.dq[x] = BitOr(prev.dq[x], BitOr(JUMP_DET, DO_NOT_USE))
                /\ ~xor => cube.dq[x] = prev.dq[x]

\* A newly clipped sample gains the flags, a flagged sample that is also
\* rejected keeps its mask without JUMP_DET.
C5_Witness ==
    /\ pc = "flagging"
    /\ \E x \in DOMAIN cube.dq :
          /\ prev.dq[x] = 0
          /\ ~prev.data[x].m
          /\ cube.data[x].m
          /\ cube.dq[x] = BitOr(JUMP_DET, DO_NOT_USE)
    /\ \E y \in DOMAIN cube.dq :
          /\ prev.dq[y] > 0
          /\ cube.data[y].m
          /\ cube.dq[y] = prev.dq[y]
          /\ ~HasBits(cube.dq[y], JUMP_DET)

InputSamples(x) == {<<t, x[2], x[3]>> : t \in BinSamples(x[1], num_ave)}

UnmaskedInputs(x) == {y \in InputSamples(x) : prev.dq[y] = 0}

\* C6: a binned pixel's mask is nonzero exactly when all B samples of the bin
\* are flagged in the input; then signal, variances and err are 0; otherwise
\* the signal is the mean of the unflagged samples alone.
C6_BinnedMask ==
    pc = "timeaverage" =>
        \A x \in DOMAIN cube.dq :
            LET U == UnmaskedInputs(x)
            IN  /\ cube.dq[x] # 0 <=> U = {}
                /\ U = {} =>
                      /\ cube.data[x].v = Zero
                      /\ cube.var_poisson[x].v = Zero
                      /\ cube.var_rnoise[x].v = Zero
                      /\ ErrSquared(cube.err[x]) = Zero
                /\ U # {} =>
                      cube.data[x].v = Mean([y \in U |-> prev.data[y].v], U)

\* One bin with no valid sample at a pixel and, at another pixel, some but not
\* all samples valid.
C6_Witness ==
    /\ pc = "timeaverage"
    /\ num_ave >= 2
    /\ \E x \in DOMAIN cube.dq : UnmaskedInputs(x) = {} /\ cube.dq[x] # 0
    /\ \E x \in DOMAIN cube.dq :
          /\ UnmaskedInputs(x) # {}
          /\ UnmaskedInputs(x) # InputSamples(x)
          /\ cube.dq[x] = 0

\* The offset held by the reference rows of (integration, column).
RowsOfCube(c) == 0 .. c.shape[2] - 1

KnownOffset(c, i, k) == c.data[<<i, 0, k>>].v

ConstantReferenceRows(c) ==
    \A x \in DOMAIN c.data :
        IsRefRow(x[2], c.shape[2]) => c.data[x].v = KnownOffset(c, x[1], x[3])

HasValidReference(c, i, k) ==
    \E r \in RowsOfCube(c) : IsRefRow(r, c.shape[2]) /\ ~c.data[<<i, r, k>>].m

NoiseFactor(c) ==
    RAdd(FromInt(1), RDiv(FromInt(1), FromInt(2 * Cardinality(PySlice(0, RefRows, c.shape[2])))))

UntouchedByRefCorr ==
    /\ cube.var_poisson = prev.var_poisson
    /\ cube.dq = prev.dq
    /\ cube.shape = prev.shape
    /\ DOMAIN cube.data = DOMAIN prev.data

\* C7 as stated: with a constant offset in the reference rows of each
\* (integration, column), the stage subtracts that offset from every row of the
\* column, multiplies var_rnoise everywhere by 1 + 1/reference_sample_count and
\* leaves var_poisson, the quality mask and the dimensions unchanged.
C7_AsStated ==
    (pc = "refcorr" /\ ConstantReferenceRows(prev)) =>
        /\ UntouchedByRefCorr
        /\ \A x \in DOMAIN cube.data :
              /\ cube.data[x].v = RSub(prev.data[x].v, KnownOffset(prev, x[1], x[3]))
              /\ cube.var_rnoise[x].v = RMul(prev.var_rnoise[x].v, NoiseFactor(prev))

\* C7 amended: the offset is subtracted from every unmasked pixel of a column
\* that has an unmasked reference sample; a masked pixel keeps its stored value
\* and stays masked; a column whose reference samples are all masked becomes
\* masked with nothing subtracted; var_rnoise is multiplied at every unmasked
\* element and kept at the masked ones; var_poisson, the quality mask and the
\* dimensions are unchanged.
C7_Conservation ==
    (pc = "refcorr" /\ ConstantReferenceRows(prev)) =>
        /\ UntouchedByRefCorr
        /\ \A x \in DOMAIN cube.data :
              /\ (~prev.data[x].m /\ HasValidReference(prev, x[1], x[3])) =>
                    cube.data[x] =
                        MA(RSub(prev.data[x].v, KnownOffset(prev, x[1], x[3])), FALSE)
              /\ (prev.data[x].m \/ ~HasValidReference(prev, x[1], x[3])) =>
                    cube.data[x] = MA(prev.data[x].v, TRUE)
              /\ ~prev.var_rnoise[x].m =>
                    cube.var_rnoise[x] =
                        MA(RMul(prev.var_rnoise[x].v, NoiseFactor(prev)), FALSE)
              /\ prev.var_rnoise[x].m => cube.var_rnoise[x] = prev.var_rnoise[x]

\* An unmasked pixel outside the reference bands, in an integration other than
\* the first, has lost its column's offset while another pixel is masked.
C7_Witness ==
    /\ pc = "refcorr"
    /\ ConstantReferenceRows(prev)
    /\ \E x \in DOMAIN cube.data :
          /\ x[1] > 0
          /\ ~IsRefRow(x[2], cube.shape[2])
          /\ ~cube.data[x].m
          /\ cube.data[x].v = RSub(prev.data[x].v, KnownOffset(prev, x[1], x[3]))
          /\ KnownOffset(prev, x[1], x[3]) # KnownOffset(prev, 0, x[3])
    /\ \E y \in DOMAIN cube.data : prev.data[y].m

\* C8: a bin size <= 0 makes the stage raise, and no cube is returned.
C8_NonPositiveBinFatal ==
    (pc \in {"timeaverage", "failed"} /\ num_ave <= 0) =>
        /\ pc = "failed"
        /\ error # "none"
        /\ cube = NoCube

\* The stage has run with a negative bin size on a cube with integrations.
C8_Witness ==
    /\ pc = "failed"
    /\ num_ave < 0
    /\ prev.shape[1] > 0
    /\ error = "ValueError"

\* C9 as stated: no variance is negative in any stage's output.
C9_AsStated ==
    StageOutput =>
        \A x \in DOMAIN cube.dq :
            /\ ~RLess(cube.var_poisson[x].v, Zero)
            /\ ~RLess(cube.var_rnoise[x].v, Zero)

\* The transitions detected by the stage: p[i, j, k] = SATURATED.
Transitions(i, k) == {j \in 0 .. ramp.shape[2] - 2 : SatDiff(ramp, i, j, k) = SATURATED}

\* C10 as stated: when SATURATED turns on at more than one group, rate, mask
\* and ngroup of the column are those of the earliest transition.
C10_AsStated ==
    AfterCDS =>
        \A c \in Columns :
            Cardinality(Transitions(c[1], c[2])) >= 2 =>
                LET j == CHOOSE a \in Transitions(c[1], c[2]) :
                             \A b \in Transitions(c[1], c[2]) : a <= b
                IN  \A r \in Rows :
                        /\ loc.cds[<<c[1], r, c[2]>>] = TruncatedCDS(ramp, c[1], j, r, c[2])
                        /\ loc.mask[<<c[1], r, c[2]>>] = TruncatedMask(ramp, c[1], j, r, c[2])
                        /\ loc.ngroup[<<c[1], r, c[2]>>] = TruncatedNgroup(j)

=============================================================================
